---- MODULE Spec2Model ----
(***************************************************************************)
(* Model of rnbo-motor-control.py: a controller that discovers the RNBO    *)
(* output path in an OSCQuery tree, then polls it and mirrors the value as *)
(* a PWM ratio on a motor pin and three LED pins.                          *)
(*                                                                         *)
(* Ratios are fixed-point numbers: FULL stands for the ratio 1.0.           *)
(* Time is counted in ticks of 0.5 s (the discovery sleep).                *)
(***************************************************************************)
EXTENDS Integers, Sequences, FiniteSets, TLC

(***************************************************************************)
(* Bounds of the model.                                                    *)
(***************************************************************************)
\* discovery timeout in ticks; stands for the parameter timeout=15 (30 ticks)
DiscTimeout == 3
\* longest JSON list drawn as a node value
MaxLen == 2

(***************************************************************************)
(* Program constants.                                                      *)
(***************************************************************************)
\* the PWM value 1.0 in the fixed-point scale of the model
FULL == 1000
MOTOR_PIN == 5
LED_PINS == <<26, 19, 13>>
LedSet == {LED_PINS[i] : i \in 1..Len(LED_PINS)}
Channels == {MOTOR_PIN} \cup LedSet

\* TARGET_PATH_BASE.format(i)
TARGET_PATH_BASE(i) ==
  IF i = 0 THEN "/rnbo/inst/0/messages/out/output1"
           ELSE "/rnbo/inst/1/messages/out/output1"

(***************************************************************************)
(* JSON documents as Python sees them after response.json().               *)
(***************************************************************************)
None == [t |-> "none"]
Num(n) == [t |-> "num", n |-> n]
\* an integer literal too large for a float, such as 10**400
Huge == [t |-> "huge"]
\* the literal NaN, which Python's json module accepts
NaN == [t |-> "nan"]
Str(s) == [t |-> "str", s |-> s]
List(items) == [t |-> "list", items |-> items]
\* a dict keeps its keys in insertion order
Dict(keys, vals) == [t |-> "dict", keys |-> keys, vals |-> vals]
EmptyDict == Dict(<<>>, <<>>)

\* dict.get(key): the value under key, None when the key is missing
Get(d, key) ==
  IF \E i \in 1..Len(d.keys) : d.keys[i] = key
  THEN d.vals[CHOOSE i \in 1..Len(d.keys) : d.keys[i] = key]
  ELSE None

\* Python truth value of an object
Truthy(x) ==
  CASE x.t = "none" -> FALSE
    [] x.t = "num"  -> x.n # 0
    [] x.t = "str"  -> x.s # ""
    [] x.t = "list" -> Len(x.items) > 0
    [] x.t = "dict" -> Len(x.keys) > 0
    [] OTHER        -> TRUE

\* a or b
PyOr(a, b) == IF Truthy(a) THEN a ELSE b

\* x == s for a str s
PyEqStr(x, s) == x.t = "str" /\ x.s = s

IsNone(x) == x.t = "none"

\* outcome of a call: a returned value or a raised exception
Ret(v) == [exc |-> "none", val |-> v]
Raise(e) == [exc |-> e, val |-> None]

(***************************************************************************)
(* fetch_full_tree: one GET; every failure is logged and becomes None.     *)
(* A response is what requests.get produced: raised (connection refused,   *)
(* timeout), or a status code and a body that parses as JSON or does not.  *)
(***************************************************************************)
Unparseable == [t |-> "unparseable"]
Response(raised, status_code, body) ==
  [raised |-> raised, status_code |-> status_code, body |-> body]

fetch_full_tree(response) ==
  IF response.raised THEN None
  ELSE IF response.status_code = 200
       THEN IF response.body.t = "unparseable" THEN None ELSE response.body
       ELSE None

(***************************************************************************)
(* search_tree_for_value: recursive search by FULL_PATH.                   *)
(***************************************************************************)
\* lines 54-55: the value of a matching node
node_value(tree) ==
  LET val == PyOr(Get(tree, "value"), Get(tree, "VALUE"))
  IN IF val.t = "list" /\ Len(val.items) > 0 THEN val.items[1] ELSE val

RECURSIVE search_tree_for_value(_, _), search_children(_, _, _)
search_tree_for_value(tree, target_path) ==
  IF tree.t # "dict" THEN Ret(None)
  ELSE IF PyEqStr(Get(tree, "FULL_PATH"), target_path)
       THEN Ret(node_value(tree))
       ELSE LET children == PyOr(Get(tree, "CONTENTS"), EmptyDict)
            IN IF children.t # "dict"
               THEN Raise("AttributeError")    \* no .values() on it
               ELSE search_children(children.vals, 1, target_path)

\* lines 58-62: the loop over children.values(), from the i-th child on
search_children(vals, i, target_path) ==
  IF i > Len(vals) THEN Ret(None)
  ELSE LET result == search_tree_for_value(vals[i], target_path)
       IN IF result.exc # "none" THEN result
          ELSE IF ~IsNone(result.val) THEN result
          ELSE search_children(vals, i + 1, target_path)

\* get_parameter_value, given the response its fetch receives
get_parameter_value(response, path) ==
  LET tree == fetch_full_tree(response)
  IN IF Truthy(tree) THEN search_tree_for_value(tree, path) ELSE Ret(None)

(***************************************************************************)
(* float(val), max(0, min(100, f)) and the division by 100.0.              *)
(***************************************************************************)
\* float() of a str: the numeric strings of the model, ValueError otherwise
ParseFloat(s) ==
  IF s = "50" THEN Ret(Num(50)) ELSE Raise("ValueError")

PyFloat(val) ==
  CASE val.t = "num"  -> Ret(val)
    [] val.t = "nan"  -> Ret(NaN)
    [] val.t = "huge" -> Raise("OverflowError")
    [] val.t = "str"  -> ParseFloat(val.s)
    [] OTHER          -> Raise("TypeError")

\* a < b on floats; every comparison with NaN is false
PyLt(a, b) == a.t = "num" /\ b.t = "num" /\ a.n < b.n

\* min(a, b) and max(a, b) keep the first argument unless the second beats it
PyMin(a, b) == IF PyLt(b, a) THEN b ELSE a
PyMax(a, b) == IF PyLt(a, b) THEN b ELSE a

\* the clamp without its upper limit
Clamp_NoUpperLimit(f) == PyMax(Num(0), f)

\* line 126: duty = max(0, min(100, float(val)))
Clamp(f) == PyMax(Num(0), PyMin(Num(100), f))

\* line 127: pwm = duty / 100.0, as a multiple of 1/FULL
Pwm(duty) == (duty.n * FULL) \div 100

(***************************************************************************)
(* The documents the OSCQuery server may answer with.  Within one snapshot *)
(* FULL_PATH is unique, and a node carries its value under one of the two  *)
(* spellings "value" / "VALUE".                                            *)
(***************************************************************************)
RootPath == "/"
OtherPath == "/rnbo/inst/0/params/gain"
Candidates == {TARGET_PATH_BASE(0), TARGET_PATH_BASE(1)}
LeafPaths == Candidates \cup {OtherPath}

Scalars ==
  {Num(0 - 5), Num(0), Num(42), Num(100), Num(200), Str("abc"), Str("50"),
   Huge, NaN}
ListElems == {Num(0), Num(7)}
Lists ==
  {List(q) : q \in UNION {[1..n -> ListElems] : n \in 0..MaxLen}}
  \cup {List(<<Str("abc")>>), List(<<List(<<Num(7)>>)>>)}
FieldValues == Scalars \cup Lists

\* a node with the given FULL_PATH, value key, value and CONTENTS
Node(full_path, key, v, contents) ==
  Dict(<<"FULL_PATH">> \o (IF key = "" THEN <<>> ELSE <<key>>)
         \o (IF IsNone(contents) THEN <<>> ELSE <<"CONTENTS">>),
       <<Str(full_path)>> \o (IF key = "" THEN <<>> ELSE <<v>>)
         \o (IF IsNone(contents) THEN <<>> ELSE <<contents>>))

\* what a node may carry as its value: nothing, "value": v or "VALUE": v
NodeValues ==
  {<<"", None>>} \cup {<<"value", v>> : v \in FieldValues}
  \cup {<<"VALUE", v>> : v \in {Num(0), Num(42), List(<<>>), List(<<Num(7)>>)}}
PlainValues == {<<"", None>>, <<"value", Num(0)>>, <<"value", List(<<Num(42)>>)>>}

Leaves(paths, nvs) == {Node(p, nv[1], nv[2], None) : p \in paths, nv \in nvs}

\* CONTENTS that is not a mapping
BadContents == {List(<<Num(1)>>), Str("x")}

\* a CONTENTS mapping with the given children, keyed in insertion order
Mapping(kids) == Dict([i \in 1..Len(kids) |-> IF i = 1 THEN "a" ELSE "b"], kids)

Roots ==
  \* the root alone, with no CONTENTS, an empty one or one that is no mapping
  {Node(RootPath, "", None, c) : c \in {None, EmptyDict, List(<<>>)} \cup BadContents}
  \* one child
  \cup {Node(RootPath, "", None, Mapping(<<a>>)) : a \in Leaves(LeafPaths, NodeValues)}
  \* both candidates as children, in either order
  \cup {Node(RootPath, "", None, Mapping(<<a, b>>)) :
          <<a, b>> \in {ab \in (Leaves(Candidates, NodeValues) \X Leaves(Candidates, PlainValues))
                              \cup (Leaves(Candidates, PlainValues) \X Leaves(Candidates, NodeValues)) :
                        Get(ab[1], "FULL_PATH") # Get(ab[2], "FULL_PATH")}}
  \* a child that is no node, and a child whose CONTENTS is no mapping
  \cup {Node(RootPath, "", None, Mapping(<<a, b>>)) :
          <<a, b>> \in {ab \in ({Num(5), Node(OtherPath, "", None, List(<<Num(1)>>))}
                                 \X Leaves(Candidates, PlainValues))
                              \cup (Leaves(Candidates, PlainValues)
                                 \X {Num(5), Node(OtherPath, "", None, List(<<Num(1)>>))}) : TRUE}}
  \* a grandchild below an inner node
  \cup {Node(RootPath, "", None, Mapping(<<Node(OtherPath, "", None, Mapping(<<a>>))>>)) :
          a \in Leaves(Candidates, PlainValues)}
  \* the root itself is a candidate
  \cup {Node(TARGET_PATH_BASE(0), nv[1], nv[2], Mapping(<<a>>)) :
          nv \in PlainValues, a \in Leaves({TARGET_PATH_BASE(1)}, PlainValues)}

\* bodies that parse but are no tree at all
NonTrees == {None, EmptyDict, List(<<Num(1)>>), Str("x"), Num(3)}

Responses ==
  {Response(TRUE, 0, Unparseable), Response(FALSE, 404, Unparseable),
   Response(FALSE, 200, Unparseable)}
  \cup {Response(FALSE, 200, d) : d \in NonTrees \cup Roots}

(***************************************************************************)
(* State of the process.                                                   *)
(***************************************************************************)
VARIABLES
  pc,           \* position of the single thread of control
  ratio,        \* PWM value of every pin
  handles,      \* number of live PWMLED objects per LED pin
  blink,        \* get_dynamic_output_path: blink
  elapsed,      \* get_dynamic_output_path: time.time() - start, in ticks
  tree,         \* the snapshot of the last fetch (None when it failed)
  path,         \* get_dynamic_output_path: the path it returns
  output_path,  \* main: output_path
  val,          \* main: val
  duty,         \* main: duty
  pending,      \* why a finally block is running
  cancelAt,     \* position at which the interrupt arrived, "none" before
  prev,         \* ratio when the current cycle began
  writes,       \* number of channel writes of the current cycle
  discOffs,     \* off() calls made by get_dynamic_output_path, per LED pin
  mainOffs,     \* off() calls made by main's finally block, per pin
  exit,         \* how the process ended, "running" before
  hostname,     \* outcome of resolve_hostname
  discState,    \* where the discovery run stands
  attempts,     \* iterations of the discovery loop begun so far
  fetches,      \* fetches made by the current attempt or cycle
  lastFailed    \* the fetch of the cycle before returned None

vars == <<pc, ratio, handles, blink, elapsed, tree, path, output_path, val,
          duty, pending, cancelAt, prev, writes, discOffs, mainOffs, exit,
          hostname, discState, attempts, fetches, lastFailed>>

\* lines 106-107: the devices are constructed with value 0
Init ==
  /\ pc = "resolve"
  /\ ratio = [ch \in Channels |-> 0]
  /\ handles = [led \in LedSet |-> 1]
  /\ blink = TRUE
  /\ elapsed = 0
  /\ tree = None
  /\ path = ""
  /\ output_path = ""
  /\ val = None
  /\ duty = Num(0)
  /\ pending = "none"
  /\ cancelAt = "none"
  /\ prev = [ch \in Channels |-> 0]
  /\ writes = 0
  /\ discOffs = [led \in LedSet |-> 0]
  /\ mainOffs = [ch \in Channels |-> 0]
  /\ exit = "running"
  /\ hostname = "unresolved"
  /\ discState = "Idle"
  /\ attempts = 0
  /\ fetches = 0
  /\ lastFailed = FALSE

\* device.value = v on every pin of chs
SetValue(r, chs, v) == [ch \in Channels |-> IF ch \in chs THEN v ELSE r[ch]]

\* device.off() on every pin of chs
Off(r, chs) == SetValue(r, chs, 0)

\* count one off() call on every pin of chs
Count(n, chs) == [ch \in DOMAIN n |-> IF ch \in chs THEN n[ch] + 1 ELSE n[ch]]

(***************************************************************************)
(* main, up to the call of get_dynamic_output_path.                        *)
(***************************************************************************)
\* lines 109-111: resolve_hostname; on socket.gaierror main returns
ResolveHostname ==
  /\ pc = "resolve"
  /\ \E resolved \in BOOLEAN :
       IF resolved
       THEN pc' = "disc_start" /\ exit' = exit /\ hostname' = "resolved"
       ELSE pc' = "done" /\ exit' = "return" /\ hostname' = "failed"
  /\ UNCHANGED <<ratio, handles, blink, elapsed, tree, path, output_path, val,
                 duty, pending, cancelAt, prev, writes, discOffs, mainOffs>>
  /\ UNCHANGED <<discState, attempts, fetches, lastFailed>>

(***************************************************************************)
(* get_dynamic_output_path.                                                *)
(***************************************************************************)
\* lines 71-74: a second PWMLED per pin; the pin factory either shares the
\* pin or raises GPIOPinInUse, which nothing catches
DiscStart ==
  /\ pc = "disc_start"
  /\ \E inUse \in BOOLEAN :
       IF inUse
       THEN /\ pc' = "done"
            /\ exit' = "GPIOPinInUse"
            /\ UNCHANGED <<handles, blink, elapsed, discState, attempts>>
       ELSE /\ pc' = "disc_while"
            /\ discState' = "Searching"
            /\ attempts' = 0
            /\ handles' = [led \in LedSet |-> handles[led] + 1]
            /\ blink' = TRUE
            /\ elapsed' = 0
            /\ exit' = exit
  /\ UNCHANGED <<ratio, tree, path, output_path, val, duty, pending, cancelAt,
                 prev, writes, discOffs, mainOffs>>
  /\ UNCHANGED <<hostname, fetches, lastFailed>>

\* the loop of line 77 as `while True`
DiscWhile_NoTimeout ==
  /\ pc = "disc_while"
  /\ pc' = "disc_toggle" /\ pending' = pending /\ discState' = discState
  /\ fetches' = 0
  /\ tree' = None
  /\ UNCHANGED <<ratio, handles, blink, elapsed, path, output_path, val,
                 duty, cancelAt, prev, writes, discOffs, mainOffs, exit>>
  /\ UNCHANGED <<hostname, attempts, lastFailed>>

\* line 77: while time.time() - start < timeout; the snapshot of the
\* attempt before is not read again
DiscWhile ==
  /\ pc = "disc_while"
  /\ IF elapsed < DiscTimeout
     THEN pc' = "disc_toggle" /\ pending' = pending /\ discState' = discState
     ELSE pc' = "disc_finally" /\ pending' = "timeout" /\ discState' = "TimedOut"
  /\ fetches' = 0
  /\ tree' = None
  /\ UNCHANGED <<ratio, handles, blink, elapsed, path, output_path, val,
                 duty, cancelAt, prev, writes, discOffs, mainOffs, exit>>
  /\ UNCHANGED <<hostname, attempts, lastFailed>>

\* line 79: 1.0 if blink else 0.0
BlinkLevel(b) == IF b THEN FULL ELSE 0

\* the toggle that forgets line 80, so blink never flips
DiscToggle_NoFlip ==
  /\ pc = "disc_toggle"
  /\ ratio' = SetValue(ratio, LedSet, BlinkLevel(blink))
  /\ blink' = blink
  /\ attempts' = IF attempts <= DiscTimeout THEN attempts + 1 ELSE attempts
  /\ pc' = "disc_sleep"
  /\ UNCHANGED <<handles, elapsed, tree, path, output_path, val, duty, pending,
                 cancelAt, prev, writes, discOffs, mainOffs, exit>>
  /\ UNCHANGED <<hostname, discState, fetches, lastFailed>>

\* the toggle that blinks the motor pin along with the LEDs
DiscToggle_WithMotor ==
  /\ pc = "disc_toggle"
  /\ ratio' = SetValue(ratio, Channels, BlinkLevel(blink))
  /\ blink' = ~blink
  /\ attempts' = IF attempts <= DiscTimeout THEN attempts + 1 ELSE attempts
  /\ pc' = "disc_sleep"
  /\ UNCHANGED <<handles, elapsed, tree, path, output_path, val, duty, pending,
                 cancelAt, prev, writes, discOffs, mainOffs, exit>>
  /\ UNCHANGED <<hostname, discState, fetches, lastFailed>>

\* lines 78-80: every LED gets 1.0 or 0.0, then blink flips
DiscToggle ==
  /\ pc = "disc_toggle"
  /\ ratio' = SetValue(ratio, LedSet, BlinkLevel(blink))
  /\ blink' = ~blink
  /\ attempts' = IF attempts <= DiscTimeout THEN attempts + 1 ELSE attempts
  /\ pc' = "disc_sleep"
  /\ UNCHANGED <<handles, elapsed, tree, path, output_path, val, duty, pending,
                 cancelAt, prev, writes, discOffs, mainOffs, exit>>
  /\ UNCHANGED <<hostname, discState, fetches, lastFailed>>

\* the clock after d more ticks; it is only ever compared with the timeout,
\* so it is not counted beyond it
Later(e, d) == IF e + d > DiscTimeout THEN DiscTimeout ELSE e + d

\* line 81: time.sleep(0.5)
DiscSleep ==
  /\ pc = "disc_sleep"
  /\ elapsed' = Later(elapsed, 1)
  /\ pc' = "disc_fetch"
  /\ UNCHANGED <<ratio, handles, blink, tree, path, output_path, val, duty,
                 pending, cancelAt, prev, writes, discOffs, mainOffs, exit>>
  /\ UNCHANGED <<hostname, discState, attempts, fetches, lastFailed>>

\* lines 83-85: the fetch takes no tick or one; a falsy tree means continue
DiscFetch ==
  /\ pc = "disc_fetch"
  /\ \E response \in Responses, took \in {0, 1} :
       /\ tree' = fetch_full_tree(response)
       /\ elapsed' = Later(elapsed, took)
       /\ pc' = IF Truthy(tree') THEN "disc_probe" ELSE "disc_while"
  /\ UNCHANGED <<ratio, handles, blink, path, output_path, val, duty, pending,
                 cancelAt, prev, writes, discOffs, mainOffs, exit>>
  /\ fetches' = fetches + 1
  /\ UNCHANGED <<hostname, discState, attempts, lastFailed>>

\* lines 87-90: the candidates in range(2), from index i on; the result is
\* the first index whose value is not None, 2 when there is none
RECURSIVE probe(_, _)
probe(t, i) ==
  IF i >= 2 THEN [exc |-> "none", found |-> 2]
  ELSE LET r == search_tree_for_value(t, TARGET_PATH_BASE(i))
       IN IF r.exc # "none" THEN [exc |-> r.exc, found |-> 2]
          ELSE IF ~IsNone(r.val) THEN [exc |-> "none", found |-> i]
          ELSE probe(t, i + 1)

\* the probe without the off() calls of lines 91-92
DiscProbe_NoOff ==
  /\ pc = "disc_probe"
  /\ \E r \in {probe(tree, 0)} :
        IF r.exc # "none"
        THEN /\ pending' = r.exc
             /\ pc' = "disc_finally"
             /\ UNCHANGED <<ratio, path, discOffs, discState>>
        ELSE IF r.found < 2
        THEN /\ UNCHANGED <<ratio, discOffs>>
             /\ path' = TARGET_PATH_BASE(r.found)
             /\ pending' = "return"
             /\ discState' = "Resolved"
             /\ pc' = "disc_finally"
        ELSE /\ pc' = "disc_while"
             /\ UNCHANGED <<ratio, path, discOffs, pending, discState>>
  /\ UNCHANGED <<handles, blink, elapsed, tree, output_path, val, duty,
                 cancelAt, prev, writes, mainOffs, exit>>
  /\ UNCHANGED <<hostname, attempts, fetches, lastFailed>>

\* lines 87-94: probe the snapshot; a hit turns the LEDs off and returns
DiscProbe ==
  /\ pc = "disc_probe"
  /\ \E r \in {probe(tree, 0)} :
        IF r.exc # "none"
        THEN /\ pending' = r.exc
             /\ pc' = "disc_finally"
             /\ UNCHANGED <<ratio, path, discOffs, discState>>
        ELSE IF r.found < 2
        THEN /\ ratio' = Off(ratio, LedSet)
             /\ discOffs' = Count(discOffs, LedSet)
             /\ path' = TARGET_PATH_BASE(r.found)
             /\ pending' = "return"
             /\ discState' = "Resolved"
             /\ pc' = "disc_finally"
        ELSE /\ pc' = "disc_while"
             /\ UNCHANGED <<ratio, path, discOffs, pending, discState>>
  /\ UNCHANGED <<handles, blink, elapsed, tree, output_path, val, duty,
                 cancelAt, prev, writes, mainOffs, exit>>
  /\ UNCHANGED <<hostname, attempts, fetches, lastFailed>>

\* lines 96-101 and 113-116: the finally block, then what main does with
\* the outcome: poll on a path, return on None, die on an exception
DiscFinally ==
  /\ pc = "disc_finally"
  /\ ratio' = Off(ratio, LedSet)
  /\ discOffs' = Count(discOffs, LedSet)
  /\ handles' = [led \in LedSet |-> handles[led] - 1]
  /\ IF pending = "return"
     THEN /\ output_path' = path
          /\ pc' = "poll"
          /\ exit' = exit
          /\ fetches' = 0
          /\ discState' = discState
     ELSE /\ output_path' = output_path
          /\ pc' = "done"
          /\ exit' = IF pending = "timeout" THEN "return" ELSE pending
          /\ fetches' = fetches
          /\ discState' = IF pending = "timeout" THEN discState ELSE "Aborted"
  /\ pending' = "none"
  /\ UNCHANGED <<blink, elapsed, tree, path, val, duty, cancelAt, prev, writes,
                 mainOffs>>
  /\ UNCHANGED <<hostname, attempts, lastFailed>>

(***************************************************************************)
(* main: the polling loop.                                                 *)
(***************************************************************************)
\* get_parameter_value fetching a second time when the first fetch fails
Poll_Retry ==
  /\ pc = "poll"
  /\ \E first \in Responses, response \in Responses :
       LET retry == IsNone(fetch_full_tree(first))
           r == get_parameter_value(response, output_path)
       IN /\ ~retry => response = first
          /\ tree' = fetch_full_tree(response)
          /\ fetches' = IF retry THEN fetches + 2 ELSE fetches + 1
          /\ IF r.exc # "none"
             THEN pc' = "cleanup" /\ pending' = r.exc /\ val' = val
             ELSE pc' = "decide" /\ pending' = pending /\ val' = r.val
  /\ prev' = ratio
  /\ writes' = 0
  /\ UNCHANGED <<ratio, handles, blink, elapsed, path, output_path, duty,
                 cancelAt, discOffs, mainOffs, exit>>
  /\ UNCHANGED <<hostname, discState, attempts, lastFailed>>

\* line 122: get_parameter_value(oscquery_url, output_path)
Poll ==
  /\ pc = "poll"
  /\ \E response \in Responses :
       LET r == get_parameter_value(response, output_path)
       IN /\ tree' = fetch_full_tree(response)
          /\ IF r.exc # "none"
             THEN pc' = "cleanup" /\ pending' = r.exc /\ val' = val
             ELSE pc' = "decide" /\ pending' = pending /\ val' = r.val
  /\ prev' = ratio
  /\ writes' = 0
  /\ UNCHANGED <<ratio, handles, blink, elapsed, path, output_path, duty,
                 cancelAt, discOffs, mainOffs, exit>>
  /\ fetches' = fetches + 1
  /\ UNCHANGED <<hostname, discState, attempts, lastFailed>>

\* lines 124-127 and 132-135: None and ValueError/TypeError skip the cycle
Decide ==
  /\ pc = "decide"
  /\ IF IsNone(val)
     THEN pc' = "sleep" /\ UNCHANGED <<duty, pending>>
     ELSE LET f == PyFloat(val)
          IN IF f.exc \in {"ValueError", "TypeError"}
             THEN pc' = "sleep" /\ UNCHANGED <<duty, pending>>
             ELSE IF f.exc # "none"
             THEN pc' = "cleanup" /\ pending' = f.exc /\ duty' = duty
             ELSE pc' = "write_motor" /\ duty' = Clamp(f.val) /\ pending' = pending
  /\ UNCHANGED <<ratio, handles, blink, elapsed, tree, path, output_path, val,
                 cancelAt, prev, writes, discOffs, mainOffs, exit>>
  /\ UNCHANGED <<hostname, discState, attempts, fetches, lastFailed>>

\* line 128: motor.value = pwm
WriteMotor ==
  /\ pc = "write_motor"
  /\ ratio' = SetValue(ratio, {MOTOR_PIN}, Pwm(duty))
  /\ writes' = writes + 1
  /\ pc' = "write_leds"
  /\ UNCHANGED <<handles, blink, elapsed, tree, path, output_path, val, duty,
                 pending, cancelAt, prev, discOffs, mainOffs, exit>>
  /\ UNCHANGED <<hostname, discState, attempts, fetches, lastFailed>>

\* the loop over the LEDs leaving after the first one
WriteLeds_FirstOnly ==
  /\ pc = "write_leds"
  /\ ratio' = SetValue(ratio, {LED_PINS[1]}, Pwm(duty))
  /\ writes' = writes + Cardinality(LedSet)
  /\ pc' = "sleep"
  /\ UNCHANGED <<handles, blink, elapsed, tree, path, output_path, val, duty,
                 pending, cancelAt, prev, discOffs, mainOffs, exit>>
  /\ UNCHANGED <<hostname, discState, attempts, fetches, lastFailed>>

\* lines 129-131: led.value = pwm for every LED
WriteLeds ==
  /\ pc = "write_leds"
  /\ ratio' = SetValue(ratio, LedSet, Pwm(duty))
  /\ writes' = writes + Cardinality(LedSet)
  /\ pc' = "sleep"
  /\ UNCHANGED <<handles, blink, elapsed, tree, path, output_path, val, duty,
                 pending, cancelAt, prev, discOffs, mainOffs, exit>>
  /\ UNCHANGED <<hostname, discState, attempts, fetches, lastFailed>>

\* line 137: time.sleep(1), then the next cycle; the snapshot, val and duty
\* of this cycle are not read again
Sleep ==
  /\ pc = "sleep"
  /\ pc' = "poll"
  /\ tree' = None
  /\ val' = None
  /\ duty' = Num(0)
  /\ prev' = ratio
  /\ writes' = 0
  /\ UNCHANGED <<ratio, handles, blink, elapsed, path, output_path,
                 pending, cancelAt, discOffs, mainOffs, exit>>
  /\ fetches' = 0
  /\ lastFailed' = IsNone(tree)
  /\ UNCHANGED <<hostname, discState, attempts>>

\* a finally block that forgets the motor
FinallyOffs_LedsOnly == LED_PINS

\* a finally block that turns the LEDs off a second time
FinallyOffs_LedsTwice == <<MOTOR_PIN>> \o LED_PINS \o LED_PINS

\* lines 142-146: the pins main's finally block turns off, in order
FinallyOffs == <<MOTOR_PIN>> \o LED_PINS

RECURSIVE OffEach(_, _), CountEach(_, _)
OffEach(r, chs) ==
  IF chs = <<>> THEN r ELSE OffEach(Off(r, {Head(chs)}), Tail(chs))
CountEach(n, chs) ==
  IF chs = <<>> THEN n ELSE CountEach(Count(n, {Head(chs)}), Tail(chs))

\* lines 139-146: KeyboardInterrupt is logged and swallowed, anything else
\* goes on after the finally block
MainFinally ==
  /\ pc = "cleanup"
  /\ ratio' = OffEach(ratio, FinallyOffs)
  /\ mainOffs' = CountEach(mainOffs, FinallyOffs)
  /\ pc' = "done"
  /\ exit' = IF pending = "KeyboardInterrupt" THEN "return" ELSE pending
  /\ pending' = "none"
  /\ UNCHANGED <<handles, blink, elapsed, tree, path, output_path, val, duty,
                 cancelAt, prev, writes, discOffs>>
  /\ UNCHANGED <<hostname, discState, attempts, fetches, lastFailed>>

(***************************************************************************)
(* The interrupt signal: KeyboardInterrupt raised where the thread stands. *)
(* Before the try of line 76 nothing handles it; inside discovery the      *)
(* finally block of line 96 runs and it goes on through main; inside the   *)
(* loop of main line 139 catches it.                                       *)
(***************************************************************************)
InDiscovery == pc \in {"disc_while", "disc_toggle", "disc_sleep", "disc_fetch", "disc_probe"}
InLoop == pc \in {"poll", "decide", "write_motor", "write_leds", "sleep"}

\* the interrupt swallowed inside the polling loop, which then goes on
Interrupt_Swallowed ==
  /\ cancelAt = "none"
  /\ pc \in {"resolve", "disc_start"} \/ InDiscovery \/ InLoop
  /\ cancelAt' = pc
  /\ IF InDiscovery THEN pc' = "disc_finally" /\ pending' = "KeyboardInterrupt" /\ exit' = exit
     ELSE IF InLoop THEN pc' = pc /\ pending' = pending /\ exit' = exit
     ELSE pc' = "done" /\ pending' = pending /\ exit' = "KeyboardInterrupt"
  /\ UNCHANGED <<ratio, handles, blink, elapsed, tree, path, output_path, val,
                 duty, prev, writes, discOffs, mainOffs>>
  /\ UNCHANGED <<hostname, discState, attempts, fetches, lastFailed>>

Interrupt ==
  /\ cancelAt = "none"
  /\ pc \in {"resolve", "disc_start"} \/ InDiscovery \/ InLoop
  /\ cancelAt' = pc
  /\ IF InDiscovery THEN pc' = "disc_finally" /\ pending' = "KeyboardInterrupt" /\ exit' = exit
     ELSE IF InLoop THEN pc' = "cleanup" /\ pending' = "KeyboardInterrupt" /\ exit' = exit
     ELSE pc' = "done" /\ pending' = pending /\ exit' = "KeyboardInterrupt"
  /\ UNCHANGED <<ratio, handles, blink, elapsed, tree, path, output_path, val,
                 duty, prev, writes, discOffs, mainOffs>>
  /\ UNCHANGED <<hostname, discState, attempts, fetches, lastFailed>>

Next ==
  \/ ResolveHostname
  \/ DiscStart
  \/ DiscWhile
  \/ DiscToggle
  \/ DiscSleep
  \/ DiscFetch
  \/ DiscProbe
  \/ DiscFinally
  \/ Poll
  \/ Decide
  \/ WriteMotor
  \/ WriteLeds
  \/ Sleep
  \/ MainFinally
  \/ Interrupt

Spec == Init /\ [][Next]_vars

(***************************************************************************)
(* The process up to the return of get_dynamic_output_path, with the       *)
(* fairness its scheduling gives: the thread never stops on its own, since *)
(* time.sleep(0.5) is finite and requests.get is bounded by timeout=2.     *)
(***************************************************************************)
DiscThread ==
  \/ ResolveHostname
  \/ DiscStart
  \/ DiscWhile
  \/ DiscToggle
  \/ DiscSleep
  \/ DiscFetch
  \/ DiscProbe
  \/ DiscFinally

NextDisc == DiscThread \/ Interrupt

SpecDisc == Init /\ [][NextDisc]_vars /\ WF_vars(DiscThread)

(***************************************************************************)
(* A second specification that applies search_tree_for_value to trees in   *)
(* which a FULL_PATH may occur more than once.                             *)
(***************************************************************************)
SearchPaths == {"/root/a", "/root/b"}
SearchValues ==
  {<<"", None>>, <<"value", List(<<Num(42)>>)>>, <<"value", Num(0)>>,
   <<"value", Num(7)>>}
SearchLeaves == Leaves(SearchPaths, SearchValues)
SearchTrees ==
  {Node("/root", "", None, None)}
  \cup {Node("/root", "", None, Mapping(<<a>>)) : a \in SearchLeaves}
  \cup {Node("/root", "", None, Mapping(<<a, b>>)) : a \in SearchLeaves, b \in SearchLeaves}
  \cup {Node("/root", "", None,
             Mapping(<<Node("/root/a", nv[1], nv[2], Mapping(<<a>>)), b>>)) :
          nv \in SearchValues, a \in SearchLeaves, b \in SearchLeaves}

InitSearch ==
  /\ pc = "search"
  /\ tree \in SearchTrees
  /\ path \in SearchPaths
  /\ ratio = [ch \in Channels |-> 0]
  /\ handles = [led \in LedSet |-> 1]
  /\ blink = TRUE
  /\ elapsed = 0
  /\ output_path = ""
  /\ val = None
  /\ duty = Num(0)
  /\ pending = "none"
  /\ cancelAt = "none"
  /\ prev = [ch \in Channels |-> 0]
  /\ writes = 0
  /\ discOffs = [led \in LedSet |-> 0]
  /\ mainOffs = [ch \in Channels |-> 0]
  /\ exit = "running"
  /\ hostname = "unresolved"
  /\ discState = "Idle"
  /\ attempts = 0
  /\ fetches = 0
  /\ lastFailed = FALSE

\* val = search_tree_for_value(tree, path)
SearchStep ==
  /\ pc = "search"
  /\ LET r == search_tree_for_value(tree, path)
     IN val' = r.val /\ pending' = r.exc
  /\ pc' = "searched"
  /\ UNCHANGED <<ratio, handles, blink, elapsed, tree, path, output_path, duty,
                 cancelAt, prev, writes, discOffs, mainOffs, exit>>
  /\ UNCHANGED <<hostname, discState, attempts, fetches, lastFailed>>

NextSearch == SearchStep

SpecSearch == InitSearch /\ [][NextSearch]_vars

(***************************************************************************)
(* What the specification says of a snapshot, for stating the properties.  *)
(***************************************************************************)
\* the nodes of a tree in pre-order: a node, then its children in order
RECURSIVE PreOrder(_), PreOrderFrom(_, _)
PreOrder(t) ==
  IF t.t # "dict" THEN <<>>
  ELSE <<t>> \o (IF Get(t, "CONTENTS").t = "dict"
                 THEN PreOrderFrom(Get(t, "CONTENTS").vals, 1) ELSE <<>>)
PreOrderFrom(kids, i) ==
  IF i > Len(kids) THEN <<>> ELSE PreOrder(kids[i]) \o PreOrderFrom(kids, i + 1)

IsAt(n, p) == PyEqStr(Get(n, "FULL_PATH"), p)
NodesAt(t, p) == SelectSeq(PreOrder(t), LAMBDA n : IsAt(n, p))
Present(t, p) == NodesAt(t, p) # <<>>
\* the first node in pre-order whose FULL_PATH is p
FirstNode(t, p) == NodesAt(t, p)[1]

\* the value a node carries under "value" or "VALUE", None when it has none
RawValue(n) ==
  IF ~IsNone(Get(n, "value")) THEN Get(n, "value") ELSE Get(n, "VALUE")

\* extraction: the first element of a non-empty sequence, absent for an
\* empty one, a scalar as it is
Extracted(x) ==
  IF x.t = "list" THEN (IF Len(x.items) > 0 THEN x.items[1] ELSE None) ELSE x

\* the extracted value at path p, None when there is no node or no value
ValueAt(t, p) == IF Present(t, p) THEN Extracted(RawValue(FirstNode(t, p))) ELSE None

\* coercion to a number fails
NonNumeric(x) ==
  x.t \in {"list", "dict"} \/ (x.t = "str" /\ ParseFloat(x.s).exc # "none")

\* clamp(v, 0, 100) / 100 as a ratio
ClampedRatio(v) ==
  ((IF v < 0 THEN 0 ELSE IF v > 100 THEN 100 ELSE v) * FULL) \div 100

\* some node has a CONTENTS that is no mapping
BadlyFormed(t) ==
  \E i \in 1..Len(PreOrder(t)) :
     LET c == Get(PreOrder(t)[i], "CONTENTS") IN ~IsNone(c) /\ c.t # "dict"

\* a cycle of the polling loop is over: it sleeps, or it ended the loop
\* without an interrupt
CycleOver == pc = "sleep" \/ (output_path # "" /\ pc \in {"cleanup", "done"} /\ cancelAt = "none")

C2_OneReleasePerChannel ==
  (pc = "done" /\ cancelAt = "sleep") =>
     \A ch \in Channels : ratio[ch] = 0 /\ mainOffs[ch] = 1

\* interrupted in the sleep with all pins at full ratio, and cleaned up
C2_Witness ==
  /\ pc = "done" /\ cancelAt = "sleep"
  /\ prev[MOTOR_PIN] = 0 /\ writes = 4 /\ Pwm(duty) = FULL
  /\ \A ch \in Channels : mainOffs[ch] = 1

\* C3: a cycle whose snapshot carries a number v at the resolved path (as a
\* scalar or as first element of a sequence) ends with the motor at
\* clamp(v, 0, 100) / 100.
C3_ActuatesClamped ==
  (pc = "sleep" /\ ValueAt(tree, output_path).t = "num") =>
     ratio[MOTOR_PIN] = ClampedRatio(ValueAt(tree, output_path).n)

\* C4: a cycle whose fetch failed, or whose snapshot lacks the resolved
\* path, or carries no value or a non-numeric one there, writes no channel
\* and leaves every ratio as it was before the cycle.
C4_SkipLeavesRatios ==
  (CycleOver /\
     (\/ ~Truthy(tree)
      \/ ~Present(tree, output_path)
      \/ IsNone(ValueAt(tree, output_path))
      \/ NonNumeric(ValueAt(tree, output_path)))) =>
     writes = 0 /\ ratio = prev

\* C5: when the fetch failed, or the document is no well-formed tree, or the
\* path is absent, or its value is non-numeric, the polling loop goes on;
\* it is left only by an interrupt.
C5_OnlyInterruptEndsLoop ==
  (output_path # "" /\ pc \in {"cleanup", "done"} /\
     (\/ ~Truthy(tree)
      \/ BadlyFormed(tree)
      \/ ~Present(tree, output_path)
      \/ NonNumeric(ValueAt(tree, output_path)))) =>
     cancelAt # "none"

\* C6: discovery resolves to the lowest-index candidate whose node carries a
\* value in the snapshot: to index 0 when both are populated, with any
\* value, and to index 1 when only that one is.
C6_LowestPopulatedCandidate ==
  (pc = "disc_finally" /\ pending = "return") =>
     LET has(i) == Present(tree, TARGET_PATH_BASE(i))
                   /\ ~IsNone(RawValue(FirstNode(tree, TARGET_PATH_BASE(i))))
     IN /\ has(0) => path = TARGET_PATH_BASE(0)
        /\ (~has(0) /\ has(1)) => path = TARGET_PATH_BASE(1)

\* C7: search_tree_for_value returns the value of the first node in
\* pre-order whose FULL_PATH equals the path, and None when no node has it.
C7_FirstMatchInPreOrder ==
  pc = "searched" => /\ pending = "none"
                     /\ val = ValueAt(tree, path)

\* C8: the value handed to the cycle is the first element of a non-empty
\* sequence, absent for an empty sequence, and a scalar itself; a value
\* that does not coerce to a number makes the cycle write nothing.
C8_Extraction ==
  /\ (pc = "decide" /\ Present(tree, output_path)) => val = ValueAt(tree, output_path)
  /\ (pc = "sleep" /\ NonNumeric(val)) => writes = 0

\* C9: the ratio of every pin is within [0.0, 1.0] in every state.
C9_RatioInRange == \A ch \in Channels : 0 <= ratio[ch] /\ ratio[ch] <= FULL

\* a value above 100 and a value below 0 were supplied and written clamped
C9_Witness ==
  /\ pc = "sleep" /\ writes = 4
  /\ val = Num(200) /\ ratio[MOTOR_PIN] = FULL /\ prev[MOTOR_PIN] = 0

\* C10: at the end of every cycle, actuated or skipped, every LED pin has
\* the ratio of the motor pin.
C10_ChannelsMirror ==
  pc = "sleep" => \A led \in LedSet : ratio[led] = ratio[MOTOR_PIN]

\* an actuated cycle ended with all four pins at 0.42
C10_Witness ==
  /\ pc = "sleep" /\ writes = 4
  /\ \A ch \in Channels : ratio[ch] = Pwm(Num(42)) /\ prev[ch] = FULL

\* C11: once a path is resolved it stays; a cycle that follows a failed
\* fetch and whose own snapshot carries a number at the resolved path ends
\* with the motor at the clamped value, with no new discovery.
C11_ResumesAfterFailure ==
  (pc = "sleep" /\ lastFailed /\ ValueAt(tree, output_path).t = "num") =>
     /\ output_path = path
     /\ discState = "Resolved"
     /\ ratio[MOTOR_PIN] = ClampedRatio(ValueAt(tree, output_path).n)

\* C12: when address resolution fails or discovery times out, the process
\* ends with a failure status, not with a normal return of main.
C12_FatalExitsNonZero ==
  (pc = "done" /\ (hostname = "failed" \/ discState = "TimedOut")) =>
     exit # "return"

\* the discovery run that resolved a path has returned
ResolvedAndBack == discState = "Resolved" /\ pc # "disc_finally"

\* C13 as stated: a discovery run that resolves forces every LED off
\* exactly once.
C13_OffExactlyOnce ==
  ResolvedAndBack => \A led \in LedSet : discOffs[led] = 1

\* C13 amended: a discovery run that resolves forces every LED off twice,
\* once on finding the path (line 92) and once in its finally block (line
\* 98), and the LEDs are at ratio 0 from the first of the two on.
C13_OffTwice ==
  /\ ResolvedAndBack => \A led \in LedSet : discOffs[led] = 2
  /\ (discState = "Resolved" /\ pc = "disc_finally") =>
        \A led \in LedSet : discOffs[led] = 1 /\ ratio[led] = 0

\* resolved on the second attempt, back in main and about to poll
C13_Witness ==
  /\ discState = "Resolved" /\ pc = "poll" /\ fetches = 0 /\ attempts = 2
  /\ \A led \in LedSet : discOffs[led] = 2 /\ ratio[led] = 0

\* after the interrupt nothing is fetched, no pin gets a value other than 0
\* and the thread is only in a finally block or at its end
NoWorkAfterCancel ==
  cancelAt # "none" =>
     /\ fetches' = fetches
     /\ \A ch \in Channels : ratio'[ch] \in {ratio[ch], 0}
     /\ pc' \in {"disc_finally", "cleanup", "done"}

\* C14 as stated: after the interrupt no cycle begins, nothing is fetched
\* and nothing but the release is written, and a fetch that was pending
\* when the interrupt arrived completes before the cleanup runs.
C14_CooperativeCancel ==
  /\ [][NoWorkAfterCancel]_vars
  /\ []((cancelAt \in {"poll", "disc_fetch"} /\ pc \in {"disc_finally", "cleanup", "done"})
          => fetches = 1)

\* C14 amended: after the interrupt no cycle begins, nothing is fetched and
\* nothing but the release is written; a fetch that was pending when the
\* interrupt arrived is abandoned, and the cleanup runs without its result.
C14_PreemptiveCancel ==
  /\ [][NoWorkAfterCancel]_vars
  /\ [](cancelAt \in {"poll", "disc_fetch"} => fetches = 0)

\* interrupted inside the fetch of a cycle, with the pins at full ratio from
\* the cycle before, and cleaned up
C14_Witness ==
  /\ pc = "done" /\ cancelAt = "poll" /\ fetches = 0
  /\ prev[MOTOR_PIN] = FULL /\ \A ch \in Channels : ratio[ch] = 0

\* C15: no LED pin ever has two live handles.
C15_ExclusiveHandles == \A led \in LedSet : handles[led] <= 1

\* once Resolved or TimedOut the run makes no attempt and stays as it is
NoAttemptAfterEnd ==
  discState \in {"Resolved", "TimedOut"} =>
     (discState' = discState /\ attempts' = attempts /\ elapsed' = elapsed)

\* C16: a discovery run ends only as Resolved or TimedOut (or by the
\* interrupt): it keeps searching through failed fetches and snapshots
\* without a populated candidate; it is Resolved only on a path that carried
\* a value in the snapshot its own attempt fetched, TimedOut only once the
\* timeout has elapsed, and makes no attempt after either.
C16_DiscoveryStates ==
  /\ [](discState = "Aborted" => cancelAt # "none")
  /\ []((discState = "Resolved" /\ pc = "disc_finally") =>
          /\ fetches = 1
          /\ Present(tree, path)
          /\ ~IsNone(RawValue(FirstNode(tree, path))))
  /\ [](discState = "TimedOut" => elapsed >= DiscTimeout)
  /\ [][NoAttemptAfterEnd]_vars

\* C17: during discovery the LEDs follow the number of attempts begun,
\* whatever the fetches returned: full after an odd attempt, off after an
\* even one.
C17_ToggleByAttempt ==
  (discState = "Searching" /\ InDiscovery) =>
     \A led \in LedSet : ratio[led] = IF attempts % 2 = 1 THEN FULL ELSE 0

\* the second attempt, reached without a resolving snapshot, has the LEDs off
C17_Witness ==
  /\ pc = "disc_fetch" /\ attempts = 2 /\ cancelAt = "none"
  /\ \A led \in LedSet : ratio[led] = 0

\* the ratios a written cycle may show for the extracted value x
RatiosFor(x) ==
  CASE x.t = "num" -> {ClampedRatio(x.n)}
    [] x.t = "str" /\ ParseFloat(x.s).exc = "none" -> {ClampedRatio(ParseFloat(x.s).val.n)}
    [] x.t = "nan" -> {0, FULL}
    [] OTHER -> {}

\* C18: a cycle fetches exactly once, before it extracts and before it
\* writes; what it writes comes from the snapshot of that fetch; the next
\* cycle begins with nothing fetched or written.
C18_OneFetchPerCycle ==
  /\ pc = "poll" => (fetches = 0 /\ writes = 0)
  /\ pc \in {"decide", "write_motor", "write_leds", "sleep"} => fetches = 1
  /\ (InLoop /\ writes > 0) =>
        /\ pc \in {"write_leds", "sleep"}
        /\ ratio[MOTOR_PIN] \in RatiosFor(ValueAt(tree, output_path))
  /\ (pc = "sleep" /\ writes > 0) =>
        \A ch \in Channels : ratio[ch] \in RatiosFor(ValueAt(tree, output_path))

\* a cycle fetched once, found "50" and wrote 0.5 over the full ratio of the
\* cycle before
C18_Witness ==
  /\ pc = "sleep" /\ fetches = 1 /\ writes = 4 /\ val = Str("50")
  /\ prev[MOTOR_PIN] = FULL /\ ratio[MOTOR_PIN] = Pwm(Num(50))

\* C19: as long as no path is resolved the motor pin is at ratio 0: during
\* address resolution and discovery, and for good when either fails.
C19_MotorIdleBeforeResolved == output_path = "" => ratio[MOTOR_PIN] = 0

\* the LEDs are lit by the third attempt while the motor is still at 0
C19_Witness ==
  /\ pc = "disc_fetch" /\ attempts = 3 /\ output_path = ""
  /\ ratio[MOTOR_PIN] = 0 /\ \A led \in LedSet : ratio[led] = FULL

====
